---- MODULE Spec2Model ----
(***************************************************************************)
(* State-machine model of src/wallpaper_downloader.py: the PyQt5 window    *)
(* WallpaperDownloaderApp (one UI thread running the handlers) and its     *)
(* ImageDownloader worker threads (one QThread per thumbnail fetch).       *)
(*                                                                         *)
(* A handler that blocks the UI thread on the network (load_wallpapers)    *)
(* or opens a modal dialog before it goes on mutating the state (the       *)
(* error branches of load_wallpapers) is split at that point: the worker   *)
(* threads keep running while the UI thread is blocked, and the nested     *)
(* event loop of a modal dialog delivers queued worker signals.            *)
(***************************************************************************)
EXTENDS Integers, Sequences, FiniteSets, TLC

VARIABLES
    source,          \* sort_combo.currentText()
    current_page,    \* self.current_page
    wallpaper_data,  \* self.wallpaper_data (the Listing)
    image_threads,   \* self.image_threads: list of ImageDownloader threads
    events,          \* signals of the workers queued for the UI thread (FIFO)
    pic_labels,      \* self.pic_labels: what each of the three slots displays
    page_label,      \* self.page_label: the page number displayed
    info,            \* name/author/source/desc labels
    msg,             \* the QMessageBox the latest step has opened, or "none"
    pc,              \* where the UI thread is
    dl,              \* what start_download did, when it is the latest step
    started          \* ImageDownloader threads started so far

vars == <<source, current_page, wallpaper_data, image_threads, events,
          pic_labels, page_label, info, msg, pc, dl, started>>

----------------------------------------------------------------------------
(* Bounds of the model *)

\* ImageDownloader threads started in one run of the program
MaxThreads == 3
\* pages the user may walk to while the Listing is empty (any n >= 0 is accepted)
MaxPage == 1

----------------------------------------------------------------------------
(* Data *)

\* two of the entries of SOURCES
SOURCES == {"Artand", "Smartisan"}

\* A record of the API's data array. id = 0: no 'id' key; url = 0: no 'url' key.
Rec(i, u) == [id |-> i, url |-> u]

\* What the server holds for each source (the data array of a code == 0 answer).
ServerListing(s) ==
    IF s = "Artand"
    THEN <<Rec(1, 1), Rec(2, 2), Rec(3, 3), Rec(4, 4)>>
    ELSE <<Rec(5, 5), Rec(6, 0), Rec(0, 7), Rec(8, 8)>>

\* range(3): the indices of pic_labels
Slots == 0 .. 2

\* what a QLabel of pic_labels displays: a text, or the pixmap fetched from a url
Text(t) == <<"text", t>>
Pixmap(u) == <<"pixmap", u>>
Failed(e) == <<"failed", e>>

\* self.download_path as __init__ sets it (choose_download_path is not modelled)
download_path == "SmartisanOS_Wallpapers"

NoDownload == [ran |-> FALSE]

Min(a, b) == IF a < b THEN a ELSE b
Max(a, b) == IF a > b THEN a ELSE b

\* s without its k-th element
RemoveAt(s, k) == [j \in 1 .. Len(s) - 1 |-> IF j < k THEN s[j] ELSE s[j + 1]]

----------------------------------------------------------------------------
(* Pagination *)

\* a plausible slip: data_index < len(self.wallpaper_data) - 1
currentWindow_offByOne(data, page) ==
    LET start_index == page * 3
        F[n \in 0 .. 3] ==
            IF n = 0 THEN <<>>
            ELSE LET data_index == start_index + (n - 1)
                 IN  IF data_index < Len(data) - 1
                     THEN Append(F[n - 1], data[data_index + 1])
                     ELSE F[n - 1]
    IN  F[3]

\* The records the loops of update_ui and start_download reach: for i in range(3),
\* the record at data_index = start_index + i when data_index < len(data).
currentWindow(data, page) ==
    LET start_index == page * 3
        F[n \in 0 .. 3] ==
            IF n = 0 THEN <<>>
            ELSE LET data_index == start_index + (n - 1)
                 IN  IF data_index < Len(data)
                     THEN Append(F[n - 1], data[data_index + 1])
                     ELSE F[n - 1]
    IN  F[3]

\* the ImageDownloader threads update_ui starts, in slot order
NewThreads(window) ==
    LET F[n \in 0 .. 3] ==
            IF n = 0 THEN <<>>
            ELSE IF n <= Len(window) /\ window[n].url # 0
                 THEN Append(F[n - 1], [index |-> n - 1, url |-> window[n].url,
                                        st |-> "running"])
                 ELSE F[n - 1]
    IN  F[3]

\* the text update_ui puts into slot i
SlotText(window, i) ==
    IF i < Len(window)
    THEN IF window[i + 1].url # 0 THEN Text("loading") ELSE Text("bad url")
    ELSE Text("no wallpaper")

\* the name/author/source/desc labels without a record
Cleared == [name |-> -1, src |-> ""]

update_ui(data, page, clear) ==
    /\ page_label' = page + 1
    /\ IF clear \/ data = <<>>
       THEN /\ info' = Cleared
            /\ pic_labels' = [i \in Slots |-> Text("no data")]
            /\ image_threads' = image_threads
            /\ started' = started
       ELSE LET window == currentWindow(data, page)
            IN  /\ info' = IF page * 3 < Len(data)
                            THEN [name |-> data[page * 3 + 1].id, src |-> source]
                            ELSE Cleared
                /\ pic_labels' = [i \in Slots |-> SlotText(window, i)]
                /\ started + Len(NewThreads(window)) <= MaxThreads
                /\ image_threads' = image_threads \o NewThreads(window)
                /\ started' = started + Len(NewThreads(window))

----------------------------------------------------------------------------
(* Handlers of the UI thread *)

\* a plausible slip: the page of the old source is kept
sort_changed_keepsPage(text) ==
    /\ pc = "idle"
    /\ text # source
    /\ source' = text
    /\ pc' = "fetching"
    /\ msg' = "none"
    /\ dl' = NoDownload
    /\ UNCHANGED <<current_page, wallpaper_data, image_threads, events, pic_labels,
                   page_label, info, started>>

\* sort_changed up to the request of load_wallpapers
sort_changed(text) ==
    /\ pc = "idle"
    /\ text # source
    /\ source' = text
    /\ current_page' = 0
    /\ pc' = "fetching"
    /\ msg' = "none"
    /\ dl' = NoDownload
    /\ UNCHANGED <<wallpaper_data, image_threads, events, pic_labels, page_label,
                   info, started>>

\* load_wallpapers: the answer has code == 0 and a data array
LoadOK ==
    /\ pc = "fetching"
    /\ wallpaper_data' = ServerListing(source)
    /\ update_ui(wallpaper_data', current_page, FALSE)
    /\ pc' = "idle"
    /\ msg' = "none"
    /\ UNCHANGED <<source, current_page, events, dl>>

\* the three QMessageBox.critical of load_wallpapers
ErrorKinds == {"api error", "network error", "json error"}

\* load_wallpapers: the request fails, the answer has code # 0 or no data, or it
\* is no JSON; QMessageBox.critical opens before anything else is done
LoadFail(kind) ==
    /\ pc = "fetching"
    /\ msg' = kind
    /\ pc' = "error"
    /\ UNCHANGED <<source, current_page, wallpaper_data, image_threads, events,
                   pic_labels, page_label, info, dl, started>>

\* a plausible slip: the records of the old source are kept
LoadFailed_keepsListing ==
    /\ pc = "error"
    /\ wallpaper_data' = wallpaper_data
    /\ update_ui(wallpaper_data', current_page, TRUE)
    /\ pc' = "idle"
    /\ msg' = "none"
    /\ UNCHANGED <<source, current_page, events, dl>>

\* load_wallpapers after the error dialog is closed
LoadFailed ==
    /\ pc = "error"
    /\ wallpaper_data' = <<>>
    /\ update_ui(wallpaper_data', current_page, TRUE)
    /\ pc' = "idle"
    /\ msg' = "none"
    /\ UNCHANGED <<source, current_page, events, dl>>

\* a plausible slip: the test for an empty Listing is left out
change_page_noEmptyCase(new_page) ==
    /\ pc = "idle"
    /\ wallpaper_data = <<>> => new_page <= MaxPage
    /\ IF new_page < 0
       THEN /\ msg' = "first page"
            /\ UNCHANGED <<current_page, image_threads, pic_labels, page_label, info,
                           started>>
       ELSE IF new_page * 3 >= Len(wallpaper_data)
       THEN /\ msg' = "no more"
            /\ UNCHANGED <<current_page, image_threads, pic_labels, page_label, info,
                           started>>
       ELSE /\ msg' = "none"
            /\ current_page' = new_page
            /\ update_ui(wallpaper_data, new_page, FALSE)
    /\ dl' = NoDownload
    /\ UNCHANGED <<source, wallpaper_data, events, pc>>

change_page(new_page) ==
    /\ pc = "idle"
    /\ wallpaper_data = <<>> => new_page <= MaxPage
    /\ IF new_page < 0
       THEN /\ msg' = "first page"
            /\ UNCHANGED <<current_page, image_threads, pic_labels, page_label, info,
                           started>>
       ELSE IF new_page * 3 >= Len(wallpaper_data) /\ Len(wallpaper_data) > 0
       THEN /\ msg' = "no more"
            /\ UNCHANGED <<current_page, image_threads, pic_labels, page_label, info,
                           started>>
       ELSE /\ msg' = "none"
            /\ current_page' = new_page
            /\ update_ui(wallpaper_data, new_page, FALSE)
    /\ dl' = NoDownload
    /\ UNCHANGED <<source, wallpaper_data, events, pc>>

\* What requests.get(url, timeout=20) and the write of the file do for one record:
\* "fetch_fail" raises a RequestException, "write_fail" an OSError (from open or
\* from f.write).
Outcomes == {"ok", "fetch_fail", "write_fail"}

Filename(path, wallpaper_id) == <<path, wallpaper_id, ".jpg">>

\* the records of the window that start_download fetches: if url and wallpaper_id
Downloadable(window) ==
    {i \in Slots : i < Len(window) /\ window[i + 1].url # 0 /\ window[i + 1].id # 0}

\* The for loop of start_download: F[n] is the loop's state after n iterations.
\* An OSError is no RequestException: it leaves the loop and the handler.
DownloadLoop(window, path, outs) ==
    LET F[n \in 0 .. 3] ==
            IF n = 0
            THEN [ran |-> TRUE, outs |-> outs, attempted |-> {}, files |-> {},
                  logged |-> {}, download_count |-> 0, raised |-> FALSE]
            ELSE LET d == F[n - 1]
                     i == n - 1
                 IN  IF d.raised \/ i \notin Downloadable(window) THEN d
                     ELSE LET wallpaper == window[i + 1]
                              filename == Filename(path, wallpaper.id)
                          IN  CASE outs[i] = "ok" ->
                                     [d EXCEPT !.attempted = @ \cup {i},
                                               !.files = @ \cup {<<filename, wallpaper.url>>},
                                               !.download_count = @ + 1]
                                [] outs[i] = "fetch_fail" ->
                                     [d EXCEPT !.attempted = @ \cup {i},
                                               !.logged = @ \cup {wallpaper.id}]
                                [] OTHER ->
                                     [d EXCEPT !.attempted = @ \cup {i},
                                               !.raised = TRUE]
    IN  F[3]

\* An exception no handler catches leaves the slot: PyQt5 from 5.5 on aborts the
\* process, earlier versions print the traceback and return to the event loop.
Unhandled == {"aborted", "idle"}

\* outs: what the network and the file system do for the record of each slot
\* (one representative for the slots the loop does not reach)
start_download(outs) ==
    /\ pc = "idle"
    /\ LET window == currentWindow(wallpaper_data, current_page)
       IN  /\ \A i \in Slots \ Downloadable(window) : outs[i] = "ok"
           /\ \A i, j \in Slots : i < j /\ outs[i] = "write_fail" => outs[j] = "ok"
           /\ IF wallpaper_data = <<>>
              THEN /\ msg' = "nothing to download"
                   /\ dl' = NoDownload
                   /\ pc' = pc
              ELSE /\ dl' = DownloadLoop(window, download_path, outs)
                   /\ IF dl'.raised
                      THEN /\ msg' = "none"
                           /\ pc' \in Unhandled
                      ELSE /\ msg' = IF dl'.download_count > 0 THEN "download done"
                                                              ELSE "download failed"
                           /\ pc' = pc
    /\ UNCHANGED <<source, current_page, wallpaper_data, image_threads, events,
                   pic_labels, page_label, info, started>>

----------------------------------------------------------------------------
(* ImageDownloader threads *)

\* What run() emits: finished(index, pixmap), the pixmap named by the url it was
\* fetched from, or error(index, message); the wording of the message ("Invalid
\* image data", or the text of the exception) is left out.
Signal(t, outcome) ==
    IF outcome = "ok"
    THEN [sig |-> "finished", index |-> t.index, arg |-> t.url]
    ELSE [sig |-> "error", index |-> t.index, arg |-> 0]

\* what requests.get and QImage.fromData do in run(): a valid image, bytes that
\* are no image, a RequestException
FetchOutcomes == {"ok", "invalid", "net"}

\* a thread whose run() has emitted: its index and url are read no more
Emitted == [index |-> 0, url |-> 0, st |-> "emitted"]

\* run(): the fetch of thread k ends and the signal is queued for the UI thread;
\* the thread is still running
run(k, outcome) ==
    /\ pc # "aborted"
    /\ k \in 1 .. Len(image_threads)
    /\ image_threads[k].st = "running"
    /\ image_threads' = [image_threads EXCEPT ![k] = Emitted]
    /\ events' = Append(events, Signal(image_threads[k], outcome))
    /\ msg' = IF pc = "error" THEN msg ELSE "none"
    /\ dl' = NoDownload
    /\ UNCHANGED <<source, current_page, wallpaper_data, pic_labels, page_label,
                   info, pc, started>>

\* run() has returned and the QThread is no longer running
ThreadExit(k) ==
    /\ pc # "aborted"
    /\ k \in 1 .. Len(image_threads)
    /\ image_threads[k].st = "emitted"
    /\ image_threads' = [image_threads EXCEPT ![k].st = "finished"]
    /\ msg' = IF pc = "error" THEN msg ELSE "none"
    /\ dl' = NoDownload
    /\ UNCHANGED <<source, current_page, wallpaper_data, events, pic_labels,
                   page_label, info, pc, started>>

isRunning(t) == t.st # "finished"

\* for thread in self.image_threads: if not thread.isRunning(): remove; break
CleanUp(threads) ==
    LET idle == {k \in 1 .. Len(threads) : ~isRunning(threads[k])}
    IN  IF idle = {} THEN threads
        ELSE RemoveAt(threads, CHOOSE k \in idle : \A j \in idle : k <= j)

\* a change of the code: a pixmap is shown only in the slot of the record it was
\* fetched for
image_loaded_ifCurrent(index, pixmap) ==
    /\ pic_labels' =
          IF /\ current_page * 3 + index < Len(wallpaper_data)
             /\ wallpaper_data[current_page * 3 + index + 1].url = pixmap
          THEN [pic_labels EXCEPT ![index] = Pixmap(pixmap)]
          ELSE pic_labels
    /\ image_threads' = CleanUp(image_threads)

image_loaded(index, pixmap) ==
    /\ pic_labels' = [pic_labels EXCEPT ![index] = Pixmap(pixmap)]
    /\ image_threads' = CleanUp(image_threads)

\* a plausible slip: the failure is shown in every slot
image_error_allSlots(index, error_message) ==
    /\ pic_labels' = [i \in Slots |-> Failed(error_message)]
    /\ image_threads' = CleanUp(image_threads)

image_error(index, error_message) ==
    /\ pic_labels' = [pic_labels EXCEPT ![index] = Failed(error_message)]
    /\ image_threads' = CleanUp(image_threads)

\* the event loop of the UI thread (or of the open error dialog) delivers the
\* next queued signal to its slot
Deliver ==
    /\ pc \in {"idle", "error"}
    /\ events # <<>>
    /\ events' = Tail(events)
    /\ IF Head(events).sig = "finished"
       THEN image_loaded(Head(events).index, Head(events).arg)
       ELSE image_error(Head(events).index, Head(events).arg)
    /\ msg' = IF pc = "error" THEN msg ELSE "none"
    /\ dl' = NoDownload
    /\ UNCHANGED <<source, current_page, wallpaper_data, page_label, info, pc,
                   started>>

----------------------------------------------------------------------------
(* The program *)

\* __init__ up to the request of load_wallpapers
Init ==
    /\ source = "Artand"
    /\ current_page = 0
    /\ wallpaper_data = <<>>
    /\ image_threads = <<>>
    /\ events = <<>>
    /\ pic_labels = [i \in Slots |-> Text("")]
    /\ page_label = 1
    /\ info = Cleared
    /\ msg = "none"
    /\ pc = "fetching"
    /\ dl = NoDownload
    /\ started = 0

Next ==
    \/ \E text \in SOURCES : sort_changed(text)
    \/ LoadOK
    \/ \E kind \in ErrorKinds : LoadFail(kind)
    \/ LoadFailed
    \/ change_page(0)
    \/ change_page(current_page - 1)
    \/ change_page(current_page + 1)
    \/ \E outs \in [Slots -> Outcomes] : start_download(outs)
    \/ \E k \in 1 .. Len(image_threads), outcome \in FetchOutcomes : run(k, outcome)
    \/ \E k \in 1 .. Len(image_threads) : ThreadExit(k)
    \/ Deliver

Spec == Init /\ [][Next]_vars

\* What the scheduling guarantees: requests.get(url, timeout=10) ends, so run()
\* emits and returns and load_wallpapers gets its answer or its exception; the
\* event loop handles a queued signal whenever the UI thread is back in it (or in
\* the loop of the error dialog). Nothing is assumed of the user.
FairSpec ==
    /\ Spec
    /\ WF_vars(\E k \in 1 .. Len(image_threads), outcome \in FetchOutcomes : run(k, outcome))
    /\ WF_vars(\E k \in 1 .. Len(image_threads) : ThreadExit(k))
    /\ WF_vars(LoadOK \/ \E kind \in ErrorKinds : LoadFail(kind))
    /\ SF_vars(Deliver)

----------------------------------------------------------------------------
(* Properties *)

N == Len(wallpaper_data)

\* the threads whose fetch is in flight, in the order of image_threads
InFlight(threads) == SelectSeq(threads, LAMBDA t : t.st = "running")

\* the step is the delivery of a queued signal
Delivered == events # <<>> /\ events' = Tail(events)

\* C1: change_page(n) sets current_page to n iff n >= 0 and (N = 0 or n*3 < N);
\* in every other case current_page and the Listing stay as they are and a
\* warning is shown.
C1_ChangePage ==
    [][\A n \in {0, current_page - 1, current_page + 1} :
          change_page(n) =>
             IF n >= 0 /\ (N = 0 \/ n * 3 < N)
             THEN current_page' = n /\ page_label' = n + 1 /\ msg' = "none"
             ELSE /\ current_page' = current_page
                  /\ wallpaper_data' = wallpaper_data
                  /\ msg' \in {"first page", "no more"}]_vars

\* a page change was accepted and the next one rejected at the end of the Listing
C1_Witness == msg = "no more" /\ current_page = 1 /\ N = 4

\* C2, as claimed: the current window holds exactly min(3, N - current_page*3)
\* records.
C2_Original ==
    Len(currentWindow(wallpaper_data, current_page)) = Min(3, N - current_page * 3)

\* C2, amended: the current window holds max(0, min(3, N - current_page*3))
\* records, which is min(3, N - current_page*3) whenever the Listing is not
\* empty, since the page then starts inside the Listing.
C2_Window ==
    /\ current_page >= 0
    /\ Len(currentWindow(wallpaper_data, current_page))
          = Max(0, Min(3, N - current_page * 3))
    /\ N > 0 => current_page * 3 < N
    /\ dl.ran => Cardinality(dl.attempted) <= Max(0, Min(3, N - current_page * 3))

\* the last page of a Listing of four records: a window of one record
C2_Witness ==
    /\ N = 4 /\ current_page = 1
    /\ Len(currentWindow(wallpaper_data, current_page)) = 1
    /\ pic_labels[1] = Text("no wallpaper")

\* C3: sort_changed sets current_page to 0 before the listing is requested, so
\* that it is 0 while the request is out and when the new Listing is installed.
C3_SourceResetsPage ==
    [][/\ (pc = "idle" /\ pc' = "fetching") => current_page' = 0
       /\ pc = "fetching" => current_page = 0
       /\ (pc = "fetching" /\ pc' = "idle") =>
             /\ current_page' = 0
             /\ wallpaper_data' = ServerListing(source)
             /\ page_label' = 1]_vars

\* the request of a new source is out and page 2 of the old one is still shown
C3_Witness == pc = "fetching" /\ page_label = 2 /\ current_page = 0

\* C4: the delivery of an error signal for slot i changes the display of slot i
\* alone and leaves every fetch in flight and every queued signal of the other
\* threads in place; every queued signal is delivered in the end, as long as the
\* process lives.
C4_ErrorConfined ==
    /\ [][(Delivered /\ Head(events).sig = "error") =>
             /\ pic_labels'[Head(events).index] = Failed(Head(events).arg)
             /\ \A j \in Slots \ {Head(events).index} : pic_labels'[j] = pic_labels[j]
             /\ InFlight(image_threads') = InFlight(image_threads)
             /\ events' = Tail(events)]_vars
    /\ []<>(events = <<>> \/ pc = "aborted")

\* one slot shows a failure, another the pixmap of its own later completion, and
\* the fetch of the third is still in flight
C4_Witness ==
    /\ pic_labels[0] = Failed(0)
    /\ pic_labels[1] = Pixmap(2)
    /\ pic_labels[2] = Text("loading")
    /\ \E k \in 1 .. Len(image_threads) :
          image_threads[k].st = "running" /\ image_threads[k].index = 2

\* the records of the current window that have an id and a url and whose fetch
\* and write succeeded
Succeeded ==
    {i \in Downloadable(currentWindow(wallpaper_data, current_page)) :
        dl.outs[i] = "ok"}

\* C5: start_download reports the number of records of the window whose fetch and
\* write succeeded and has written {download_path}/{id}.jpg, holding the fetched
\* bytes, for exactly those records.
C5_DownloadCount ==
    dl.ran =>
       /\ ~dl.raised
       /\ dl.download_count = Cardinality(Succeeded)
       /\ msg = (IF Cardinality(Succeeded) > 0 THEN "download done" ELSE "download failed")
       /\ dl.files =
             {<<Filename(download_path, wallpaper_data[current_page * 3 + i + 1].id),
                wallpaper_data[current_page * 3 + i + 1].url>> : i \in Succeeded}

\* C5 where no write fails (not the claim: what is left of it without C6's case)
C5_WhenWritesSucceed ==
    (dl.ran /\ \A i \in Slots : dl.outs[i] # "write_fail") =>
       /\ ~dl.raised
       /\ dl.download_count = Cardinality(Succeeded)
       /\ msg = (IF Cardinality(Succeeded) > 0 THEN "download done" ELSE "download failed")
       /\ dl.files =
             {<<Filename(download_path, wallpaper_data[current_page * 3 + i + 1].id),
                wallpaper_data[current_page * 3 + i + 1].url>> : i \in Succeeded}

\* C6: a failed fetch or a failed write of one record is skipped: every record of
\* the window with an id and a url is attempted and start_download ends with its
\* report of the count.
C6_FailureSkipped ==
    dl.ran =>
       /\ dl.attempted = Downloadable(currentWindow(wallpaper_data, current_page))
       /\ ~dl.raised
       /\ msg = (IF dl.download_count > 0 THEN "download done" ELSE "download failed")
       /\ pc = "idle"

C8_AtMostThree ==
    /\ Len(InFlight(image_threads)) <= 3
    /\ \A i \in Slots :
          Cardinality({k \in 1 .. Len(image_threads) :
                          /\ image_threads[k].st = "running"
                          /\ image_threads[k].index = i}) <= 1

\* C9: no step takes a fetch in flight or a queued signal away other than by its
\* completion and its delivery, a delivered signal is written into the slot of its
\* index whatever page and Listing are current, and every fetch in flight
\* completes in the end, as long as the process lives.
C9_NeverCancelled ==
    /\ [][/\ \/ /\ \E m \in 0 .. 3 :
                     /\ m <= Len(InFlight(image_threads'))
                     /\ SubSeq(InFlight(image_threads'), 1,
                               Len(InFlight(image_threads')) - m)
                           = InFlight(image_threads)
                /\ events' = events \/ Delivered
             \/ \E k \in 1 .. Len(InFlight(image_threads)), o \in FetchOutcomes :
                   /\ InFlight(image_threads') = RemoveAt(InFlight(image_threads), k)
                   /\ events' = Append(events, Signal(InFlight(image_threads)[k], o))
          /\ Delivered =>
                pic_labels'[Head(events).index] =
                   IF Head(events).sig = "finished" THEN Pixmap(Head(events).arg)
                                                    ELSE Failed(Head(events).arg)]_vars
    /\ []<>(InFlight(image_threads) = <<>> \/ pc = "aborted")

\* a slot shows the pixmap of a record that is not the record of that slot
C9_Witness ==
    \E i \in Slots, u \in 1 .. 8 :
       /\ pc = "idle"
       /\ pic_labels[i] = Pixmap(u)
       /\ N > 0
       /\ \/ current_page * 3 + i >= N
          \/ wallpaper_data[current_page * 3 + i + 1].url # u

\* C10: when no thread runs and no signal is queued, image_threads is empty.
C10_ThreadsDisposed ==
    (events = <<>> /\ \A k \in 1 .. Len(image_threads) : ~isRunning(image_threads[k]))
       => image_threads = <<>>

====
